---- MODULE Spec2Model ----
\* Model of the rustorrent parser crate: the torrent info variants (v1, v2,
\* hybrid) and their file iterators, and the magnet link parser with its
\* info-hash decoder.
EXTENDS Integers, Sequences, FiniteSets, TLC

VARIABLES
    info,        \* resolver: the decoded info dictionary (key -> shape)
    resolved,    \* resolver: result of the attempt, <<>> before the call
    source,      \* v2: the entries of `file tree` in the order of the document
    file_tree,   \* v2: TorrentInfoFields.file_tree of the iterated document
    stack,       \* v2: FileTreeIterator.stack
    yielded,     \* v2: items returned by next() so far, in order
    ended,       \* v2: number of times next() returned None (capped)
    v1doc,       \* v1: base name and TorrentInfoFields.content of the document
    v1iter,      \* v1: TorrentIterator state, <<>> before file_iter()
    v1out,       \* v1: results of next() so far, in order
    info_hash,   \* magnet: MagnetLink.info_hash given to hash_bytes()
    hash_result, \* magnet: result of hash_bytes(), <<>> before the call
    uri,         \* magnet: the text given to from_str()
    link         \* magnet: result of from_str(), <<>> before the call

vars == <<info, resolved, source, file_tree, stack, yielded, ended, v1doc, v1iter,
          v1out, info_hash, hash_result, uri, link>>

resolveVars == <<info, resolved>>
treeVars == <<source, file_tree, stack, yielded, ended>>
flatVars == <<v1doc, v1iter, v1out>>
hashVars == <<info_hash, hash_result>>
magnetVars == <<uri, link>>

\* Option<T>: <<>> is None, <<x>> is Some(x).
None == <<>>
Some(x) == <<x>>

\* Value of the variables of the components a specification does not run.
Idle == "idle"

\* The result of an operation: NotCalled before the call, Called(r) after.
NotCalled == <<>>
Called(x) == <<x>>

Last(s) == s[Len(s)]
Front(s) == SubSeq(s, 1, Len(s) - 1)

Occurs(seq, x) == \E i \in 1..Len(seq) : seq[i] = x
IndexOf(seq, x) == CHOOSE i \in 1..Len(seq) : seq[i] = x

----------------------------------------------------------------------------
\* std::path::PathBuf, as the text it holds (a sequence of characters).

Sep == "/"

\* Path::is_absolute on unix: the text starts with the separator.
IsAbsolute(p) == Len(p) > 0 /\ p[1] = Sep

\* PathBuf::push / Path::join on unix: an absolute argument replaces the
\* path, otherwise a separator is added unless the path is empty or already
\* ends with one, and the argument is appended.
Join(path, part) ==
    IF IsAbsolute(part) THEN part
    ELSE IF Len(path) > 0 /\ Last(path) # Sep THEN path \o <<Sep>> \o part
    ELSE path \o part

\* A path built by joining segments one after the other.
RECURSIVE FoldJoin(_, _)
FoldJoin(acc, parts) ==
    IF parts = <<>> THEN acc ELSE FoldJoin(Join(acc, Head(parts)), Tail(parts))

\* Path::components: the root, if the path is absolute, and the pieces
\* between separators that are not empty. Two paths are equal when their
\* components are ("a/" == "a").
RECURSIVE SplitSep(_, _)
SplitSep(p, cur) ==
    LET done == IF cur = <<>> THEN <<>> ELSE <<cur>>
    IN IF p = <<>> THEN done
       ELSE IF Head(p) = Sep THEN done \o SplitSep(Tail(p), <<>>)
       ELSE SplitSep(Tail(p), Append(cur, Head(p)))

Components(p) == (IF IsAbsolute(p) THEN <<<<Sep>>>> ELSE <<>>) \o SplitSep(p, <<>>)

----------------------------------------------------------------------------
\* v2: the file tree and its iterator (file/v2.rs).

\* Bound on the number of nodes (files and directories) of a file tree.
MaxNodes == 4

\* Segment names, listed in ascending order (the order of String keys in a
\* BTreeMap, byte by byte): "" < "/c" < "a". One of them starts with the
\* separator.
NameOrder == << <<>>, <<"/", "c">>, <<"a">> >>

\* File lengths of v1 documents and of file tree entries.
Lengths == {1, 2}
LengthsV2 == {3}

\* TorrentFileEntry of v2; id stands for the address of the entry, the
\* identity of the reference the iterator hands out.
TorrentFileEntryV2(len, id) == [length |-> len, id |-> id]

\* FileTreeNode::File(entry) and FileTreeNode::Directory(inner).
File(entry) == [type |-> "File", entry |-> entry, inner |-> <<>>]
Directory(inner) ==
    [type |-> "Directory", entry |-> TorrentFileEntryV2(0, <<>>), inner |-> inner]

\* A BTreeMap<String, FileTreeNode> is the sequence of its entries in
\* ascending key order, which is what BTreeMap::iter walks.
RECURSIVE ExactMaps(_, _)
ExactNodes(k) ==
    (IF k = 1 THEN {File(TorrentFileEntryV2(l, <<>>)) : l \in LengthsV2} ELSE {})
    \cup {Directory(m) : m \in ExactMaps(1, k - 1)}

ExactMaps(i, n) ==
    IF n = 0 THEN {<<>>}
    ELSE IF i > Len(NameOrder) THEN {}
    ELSE ExactMaps(i + 1, n)
         \cup UNION {
              {<<[name |-> NameOrder[i], node |-> nd]>> \o rest :
                  nd \in ExactNodes(k), rest \in ExactMaps(i + 1, n - k)}
              : k \in 1..n}

\* Gives every file entry of a map its address: the keys leading to it.
RECURSIVE Label(_, _)
Label(m, at) ==
    [i \in 1..Len(m) |->
        LET e == m[i]
            loc == Append(at, e.name)
        IN IF e.node.type = "File"
           THEN [name |-> e.name,
                 node |-> File(TorrentFileEntryV2(e.node.entry.length, loc))]
           ELSE [name |-> e.name, node |-> Directory(Label(e.node.inner, loc))]]

FileTrees == {Label(m, <<>>) : m \in UNION {ExactMaps(1, n) : n \in 0..MaxNodes}}

\* FileTreeNode::file_count and TorrentInfoFields::file_count.
RECURSIVE MapFileCount(_)
NodeFileCount(node) ==
    IF node.type = "File" THEN 1 ELSE MapFileCount(node.inner)

MapFileCount(m) ==
    IF m = <<>> THEN 0 ELSE NodeFileCount(Head(m).node) + MapFileCount(Tail(m))

file_count(tree) == MapFileCount(tree)

\* The file entries of a tree, as the set of their addresses.
RECURSIVE MapLeaves(_)
MapLeaves(m) ==
    UNION {IF m[i].node.type = "File" THEN {m[i].node.entry}
           ELSE MapLeaves(m[i].node.inner) : i \in 1..Len(m)}

\* The orders in which a document can list the entries of a map, at every
\* level: the sequences of the same entries, each directory listed in one of
\* its orders.
RECURSIVE SourceOrders(_)
NodeOrders(node) ==
    IF node.type = "File" THEN {node}
    ELSE {[node EXCEPT !.inner = s] : s \in SourceOrders(node.inner)}

SourceOrders(m) ==
    IF m = <<>> THEN {<<>>}
    ELSE UNION {
           {<<[name |-> m[i].name, node |-> nd]>> \o rest :
               nd \in NodeOrders(m[i].node),
               rest \in SourceOrders(SubSeq(m, 1, i - 1)
                                     \o SubSeq(m, i + 1, Len(m)))}
           : i \in 1..Len(m)}

\* Ord for String: the position of a name in NameOrder.
KeyIndex(name) == IndexOf(NameOrder, name)

\* BTreeMap::insert that keeps the entries in the order of insertion.
BTreeMapInsertLast(map, name, node) ==
    SelectSeq(map, LAMBDA e : e.name # name) \o <<[name |-> name, node |-> node]>>

\* BTreeMap::insert: the entry takes its place in ascending key order,
\* replacing an entry of the same key.
BTreeMapInsert(map, name, node) ==
    SelectSeq(map, LAMBDA e : KeyIndex(e.name) < KeyIndex(name))
    \o <<[name |-> name, node |-> node]>>
    \o SelectSeq(map, LAMBDA e : KeyIndex(e.name) > KeyIndex(name))

\* Deserialize for BTreeMap<String, FileTreeNode>: the entries are inserted
\* one by one in the order of the document, each directory deserialized the
\* same way.
RECURSIVE DeserializeMap(_, _)
DeserializeNode(node) ==
    IF node.type = "File" THEN node
    ELSE [node EXCEPT !.inner = DeserializeMap(<<>>, node.inner)]

DeserializeMap(map, entries) ==
    IF entries = <<>> THEN map
    ELSE DeserializeMap(
             BTreeMapInsert(map, Head(entries).name,
                            DeserializeNode(Head(entries).node)),
             Tail(entries))

\* FileTreeIterator::new: one frame, the given path and the map's iterator
\* (the entries still to come).
FileTreeIteratorNew(path, node) == <<[path |-> path, node |-> node]>>

\* FileTreeIterator::next that forgets to push the frame back when it
\* returns a file, losing the later siblings.
RECURSIVE IterNextDropFrame(_)
IterNextDropFrame(st) ==
    IF st = <<>> THEN [stack |-> st, item |-> None]
    ELSE LET path == Last(st).path
             node == Last(st).node
             rest == Front(st)
         IN IF node # <<>>
            THEN LET name == Head(node).name
                     entry == Head(node).node
                     node2 == Tail(node)
                 IN IF entry.type = "File"
                    THEN [stack |-> rest,
                          item |-> Some([path |-> path, entry |-> entry.entry])]
                    ELSE IterNextDropFrame(
                             rest \o <<[path |-> path, node |-> node2],
                                       [path |-> Join(path, name),
                                        node |-> entry.inner]>>)
            ELSE IterNextDropFrame(rest)

\* FileTreeIterator::next on a stack: the stack it leaves and the item it
\* returns.
RECURSIVE IterNext(_)
IterNext(st) ==
    IF st = <<>> THEN [stack |-> st, item |-> None]
    ELSE LET path == Last(st).path
             node == Last(st).node
             rest == Front(st)
         IN IF node # <<>>
            THEN LET name == Head(node).name
                     entry == Head(node).node
                     node2 == Tail(node)
                 IN IF entry.type = "File"
                    THEN [stack |-> Append(rest, [path |-> path, node |-> node2]),
                          item |-> Some([path |-> path, entry |-> entry.entry])]
                    ELSE IterNext(rest \o <<[path |-> path, node |-> node2],
                                            [path |-> Join(path, name),
                                             node |-> entry.inner]>>)
            ELSE IterNext(rest)

\* Number of None results recorded before the model stops calling next().
MaxEnded == 2

\* TorrentInfoFields::file_iter of v2: the iterator over the whole tree,
\* starting from the empty path.
FileIterV2(tree) == FileTreeIteratorNew(<<>>, tree)

\* One call of FileTreeIterator::next.
FileTreeIteratorNext ==
    /\ ended < MaxEnded
    /\ LET r == IterNext(stack)
       IN /\ stack' = r.stack
          /\ IF r.item = None
             THEN ended' = ended + 1 /\ UNCHANGED yielded
             ELSE yielded' = Append(yielded, r.item[1]) /\ UNCHANGED ended
    /\ UNCHANGED <<source, file_tree>>
    /\ UNCHANGED <<resolveVars, flatVars, hashVars, magnetVars>>

InitTree ==
    /\ \E t \in FileTrees : source \in SourceOrders(t)
    /\ file_tree = DeserializeMap(<<>>, source)
    /\ stack = FileIterV2(file_tree)
    /\ yielded = <<>>
    /\ ended = 0
    /\ info = Idle /\ resolved = Idle
    /\ v1doc = Idle /\ v1iter = Idle /\ v1out = Idle
    /\ info_hash = Idle /\ hash_result = Idle
    /\ uri = Idle /\ link = Idle

NextTree == FileTreeIteratorNext

SpecTree == InitTree /\ [][NextTree]_vars

YieldedEntries == {yielded[i].entry : i \in 1..Len(yielded)}

\* A directory without entries occurs somewhere in the map.
RECURSIVE HasEmptyDirectory(_)
HasEmptyDirectory(m) ==
    \E i \in 1..Len(m) :
        /\ m[i].node.type = "Directory"
        /\ \/ m[i].node.inner = <<>>
           \/ HasEmptyDirectory(m[i].node.inner)

\* C4: the file-tree iterator yields file entries of the tree only, no entry
\* twice, and once it has returned None it has yielded every file entry, so
\* that the number of items equals file_count(), the recursive sum of the
\* files of the tree (0 for the empty tree, empty directories adding nothing).
C4_EveryLeafOnce ==
    /\ YieldedEntries \subseteq MapLeaves(file_tree)
    /\ \A i, j \in 1..Len(yielded) :
          i # j => yielded[i].entry # yielded[j].entry
    /\ ended > 0 =>
          /\ Len(yielded) = file_count(file_tree)
          /\ YieldedEntries = MapLeaves(file_tree)
          /\ Cardinality(MapLeaves(file_tree)) = file_count(file_tree)

\* An exhausted iteration of a tree with several files, two of them siblings,
\* and an empty directory.
C4_Witness ==
    /\ ended > 0
    /\ Len(yielded) >= 2
    /\ HasEmptyDirectory(file_tree)
    /\ \E i \in 1..Len(file_tree) - 1 :
          file_tree[i].node.type = "File" /\ file_tree[i + 1].node.type = "File"

\* C14: every item the file-tree iterator yields for a file has the path of
\* the frame being walked extended by the file's own name (its key in the
\* map that holds it), together with the file's entry (length, pieces root);
\* so no two files of one tree are yielded with the same path.
C14_LeafPathHasName ==
    /\ \A i \in 1..Len(yielded) :
          /\ Components(yielded[i].path)
                = Components(FoldJoin(<<>>, yielded[i].entry.id))
          /\ yielded[i].entry \in MapLeaves(file_tree)
    /\ \A i, j \in 1..Len(yielded) :
          i # j => Components(yielded[i].path) # Components(yielded[j].path)

\* Key paths compared name by name, in the order of the keys.
RECURSIVE KeyPathLess(_, _)
KeyPathLess(p, q) ==
    IF p = <<>> \/ q = <<>> THEN FALSE
    ELSE IF Head(p) = Head(q) THEN KeyPathLess(Tail(p), Tail(q))
    ELSE KeyIndex(Head(p)) < KeyIndex(Head(q))

\* The key paths of the files a document lists, whatever the order.
RECURSIVE SourceLeafIds(_, _)
SourceLeafIds(entries, at) ==
    UNION {IF entries[i].node.type = "File" THEN {Append(at, entries[i].name)}
           ELSE SourceLeafIds(entries[i].node.inner, Append(at, entries[i].name))
           : i \in 1..Len(entries)}

YieldedIds == {yielded[i].entry.id : i \in 1..Len(yielded)}

\* C15: the file-tree iterator walks depth first in ascending order of the
\* names: the files come out in ascending order of their key paths (names of
\* one map ascending, every file below a directory before the files of a
\* later sibling), and they are the files the document lists; so the
\* sequence is fixed by the set of files, not by the order in which the
\* document lists them, and is the same for every enumeration.
C15_AscendingDepthFirst ==
    /\ \A i, j \in 1..Len(yielded) :
          i < j => KeyPathLess(yielded[i].entry.id, yielded[j].entry.id)
    /\ YieldedIds \subseteq SourceLeafIds(source, <<>>)
    /\ ended > 0 => YieldedIds = SourceLeafIds(source, <<>>)

\* An exhausted iteration of at least three files of a document that lists
\* its top-level entries, and the entries of a directory, in descending order.
C15_Witness ==
    /\ ended > 0
    /\ Len(yielded) >= 3
    /\ Len(source) >= 2
    /\ KeyIndex(source[1].name) > KeyIndex(source[2].name)
    /\ \E i \in 1..Len(source) :
          /\ source[i].node.type = "Directory"
          /\ Len(source[i].node.inner) >= 2
          /\ KeyIndex(source[i].node.inner[1].name)
                > KeyIndex(source[i].node.inner[2].name)

\* The deepest nesting of directories in a map.
RECURSIVE MapDepth(_)
MapDepth(m) ==
    IF m = <<>> THEN 0
    ELSE LET here == IF Head(m).node.type = "Directory"
                     THEN 1 + MapDepth(Head(m).node.inner) ELSE 0
             rest == MapDepth(Tail(m))
         IN IF here > rest THEN here ELSE rest

IsPrefix(p, q) == Len(p) <= Len(q) /\ SubSeq(q, 1, Len(p)) = p

\* C17: the iteration of a file tree ends: None is returned after at most
\* file_count() items. The stack never holds more than the deepest nesting
\* of directories plus one frames, and the path of every frame extends the
\* path of the frame below it. Once None was returned the stack is empty and
\* the next call returns None again.
C17_StackBoundedAndEnds ==
    /\ ended = 0 => Len(yielded) <= file_count(file_tree)
    /\ Len(stack) <= MapDepth(file_tree) + 1
    /\ \A k \in 1..(Len(stack) - 1) :
          IsPrefix(Components(stack[k].path), Components(stack[k + 1].path))
    /\ ended > 0 => (stack = <<>> /\ IterNext(stack).item = None)

----------------------------------------------------------------------------
\* v1: the flat file list and its iterator (file/v1.rs).

\* Bound on the number of file entries of a multi-file document.
MaxFiles == 2

\* Path lists of file entries: plain names, alone and in both orders, and
\* lists with a segment that starts with the separator, first, last and in
\* the middle.
PathLists == {<< <<"a">> >>,
              << <<"a">>, <<"b">> >>,
              << <<"b">>, <<"a">> >>,
              << <<"/", "c">>, <<"a">> >>,
              << <<"a">>, <<"/", "c">> >>,
              << <<"a">>, <<"/", "c">>, <<"b">> >>}

\* Display names (TorrentInfoBase.name passed as base_name).
BaseNames == {<<"a">>, <<"a", "/", "b">>, <<"/", "c">>}

SeqsUpTo(S, n) == UNION {[1..k -> S] : k \in 0..n}

\* TorrentFileEntry of v1 (md5sum is not read by the iterator).
TorrentFileEntryV1 == [length : Lengths, path : PathLists]

\* TorrentInfoContent::File { length, .. } and ::Directory { files }.
ContentFile(len) == [type |-> "File", length |-> len, files |-> <<>>]
ContentDirectory(files) == [type |-> "Directory", length |-> 0, files |-> files]

TorrentInfoContentV1 ==
    {ContentFile(l) : l \in Lengths}
    \cup {ContentDirectory(fs) : fs \in SeqsUpTo(TorrentFileEntryV1, MaxFiles)}

\* PathBuf::from(&str): the path holds the text unchanged.
PathBufFrom(text) == text

\* TorrentFileEntry::path: the segments folded with join from the empty
\* path.
EntryPath(entry) == FoldJoin(<<>>, entry.path)

\* The Item of the v1 iterator is a PathBuf and nothing else.
ItemV1(path) == [path |-> path]

\* TorrentIterator::Single(once(path)) and ::Multi(files.iter().map(path)):
\* the value of the Once still to give, and the entries still to come.
TorrentIteratorSingle(path) == [type |-> "Single", once |-> Some(path), rest |-> <<>>]
TorrentIteratorMulti(files) == [type |-> "Multi", once |-> None, rest |-> files]

\* TorrentInfoFields::file_iter that walks the entries from the second one.
FileIterV1SkipFirst(content, base_name) ==
    IF content.type = "File"
    THEN TorrentIteratorSingle(<<>>)
    ELSE TorrentIteratorMulti(IF content.files = <<>> THEN <<>>
                              ELSE Tail(content.files))

\* TorrentInfoFields::file_iter of v1.
FileIterV1(content, base_name) ==
    IF content.type = "File"
    THEN TorrentIteratorSingle(PathBufFrom(base_name))
    ELSE TorrentIteratorMulti(content.files)

\* TorrentIterator::next: the iterator it leaves and the item it returns.
TorrentIteratorNextOf(it) ==
    IF it.type = "Single"
    THEN [iter |-> [it EXCEPT !.once = None],
          item |-> IF it.once = None THEN None ELSE Some(ItemV1(it.once[1]))]
    ELSE IF it.rest = <<>>
         THEN [iter |-> it, item |-> None]
         ELSE [iter |-> [it EXCEPT !.rest = Tail(it.rest)],
               item |-> Some(ItemV1(EntryPath(Head(it.rest))))]

\* Number of None results in v1out.
RECURSIVE CountNone(_)
CountNone(out) ==
    IF out = <<>> THEN 0
    ELSE (IF Head(out) = None THEN 1 ELSE 0) + CountNone(Tail(out))

\* One call of TorrentIterator::next; its result is appended to v1out.
TorrentIteratorNext ==
    /\ CountNone(v1out) < MaxEnded
    /\ LET r == TorrentIteratorNextOf(v1iter)
       IN /\ v1iter' = r.iter
          /\ v1out' = Append(v1out, r.item)
    /\ UNCHANGED v1doc
    /\ UNCHANGED <<resolveVars, treeVars, hashVars, magnetVars>>

InitFlat ==
    /\ v1doc \in [base_name : BaseNames, content : TorrentInfoContentV1]
    /\ v1iter = FileIterV1(v1doc.content, v1doc.base_name)
    /\ v1out = <<>>
    /\ info = Idle /\ resolved = Idle
    /\ source = Idle /\ file_tree = Idle
    /\ stack = Idle /\ yielded = Idle /\ ended = Idle
    /\ info_hash = Idle /\ hash_result = Idle
    /\ uri = Idle /\ link = Idle

NextFlat == TorrentIteratorNext

SpecFlat == InitFlat /\ [][NextFlat]_vars

\* The items yielded so far, without the None results.
RECURSIVE SomeItems(_)
SomeItems(out) ==
    IF out = <<>> THEN <<>>
    ELSE (IF Head(out) = None THEN <<>> ELSE <<Head(out)[1]>>)
         \o SomeItems(Tail(out))

V1Exhausted == CountNone(v1out) > 0

\* The segments of a path list written one after the other, separated by
\* the separator.
RECURSIVE SegmentsText(_)
SegmentsText(parts) ==
    IF parts = <<>> THEN <<>>
    ELSE IF Len(parts) = 1 THEN Head(parts)
    ELSE Head(parts) \o <<Sep>> \o SegmentsText(Tail(parts))

\* C5: for a multi-file document with N entries the iterator yields N
\* items, the i-th for the i-th entry, and the i-th path consists of exactly
\* the segments of the i-th entry's path list, all of them, in order.
C5_MultiPathsAreSegments ==
    (V1Exhausted /\ v1doc.content.type = "Directory") =>
        LET items == SomeItems(v1out)
            files == v1doc.content.files
        IN /\ Len(items) = Len(files)
           /\ \A i \in 1..Len(files) :
                items[i].path = SegmentsText(files[i].path)

----------------------------------------------------------------------------
\* The info dictionary and the variants built from it (file/v1.rs,
\* file/v2.rs, file/v2hybrid.rs).

\* What the decoded dictionary holds under a key: nothing, a value of the
\* type the field requires, or a value of another type (for `meta version`,
\* also an integer outside u8).
Shapes == {"absent", "ok", "bad"}

InfoKeys == {"name", "piece_length", "private", "pieces", "length", "md5sum",
             "files", "meta_version", "file_tree"}

InfoDicts == [InfoKeys -> Shapes]

\* A required field, and a field with #[serde(default)].
Required(d, k) == d[k] = "ok"
Optional(d, k) == d[k] # "bad"

\* TorrentInfoBase: name, piece length and the optional private flag.
TorrentInfoBase(d) ==
    IF Required(d, "name") /\ Required(d, "piece_length") /\ Optional(d, "private")
    THEN Some([name |-> d.name, piece_length |-> d.piece_length,
               private |-> d.private])
    ELSE None

\* TorrentInfoContent that tries Directory before File.
TorrentInfoContentDirectoryFirst(d) ==
    IF Required(d, "files") THEN Some("Directory")
    ELSE IF Required(d, "length") /\ Optional(d, "md5sum") THEN Some("File")
    ELSE None

\* TorrentInfoContent whose files default to an empty list.
TorrentInfoContentDefaultFiles(d) ==
    IF Required(d, "length") /\ Optional(d, "md5sum") THEN Some("File")
    ELSE IF Optional(d, "files") THEN Some("Directory")
    ELSE None

\* TorrentInfoContent, an untagged enum: the first variant, in declaration
\* order, whose fields deserialize from the dictionary; keys a variant does
\* not name are ignored.
TorrentInfoContent(d) ==
    IF Required(d, "length") /\ Optional(d, "md5sum") THEN Some("File")
    ELSE IF Required(d, "files") THEN Some("Directory")
    ELSE None

\* v1 TorrentInfoFields: pieces and the flattened content.
TorrentInfoFieldsV1(d) ==
    IF Required(d, "pieces") /\ TorrentInfoContent(d) # None
    THEN Some([pieces |-> d.pieces, content |-> TorrentInfoContent(d)[1]])
    ELSE None

\* v2 TorrentInfoFields: meta version and file tree.
TorrentInfoFieldsV2(d) ==
    IF Required(d, "meta_version") /\ Required(d, "file_tree")
    THEN Some([meta_version |-> d.meta_version, file_tree |-> d.file_tree])
    ELSE None

NoVariantMatched ==
    [variant |-> "NoVariantMatched", base |-> None, v1 |-> None, v2 |-> None]

\* v1::TorrentInfo: base and v1 fields, both flattened.
TorrentInfoV1(d) ==
    IF TorrentInfoBase(d) # None /\ TorrentInfoFieldsV1(d) # None
    THEN Some([variant |-> "V1", base |-> TorrentInfoBase(d),
               v1 |-> TorrentInfoFieldsV1(d), v2 |-> None])
    ELSE None

\* v2::TorrentInfo: base and v2 fields, both flattened.
TorrentInfoV2(d) ==
    IF TorrentInfoBase(d) # None /\ TorrentInfoFieldsV2(d) # None
    THEN Some([variant |-> "V2", base |-> TorrentInfoBase(d),
               v1 |-> None, v2 |-> TorrentInfoFieldsV2(d)])
    ELSE None

\* v2hybrid::TorrentInfo that also insists on an md5sum.
TorrentInfoHybridNeedsMd5(d) ==
    IF /\ TorrentInfoBase(d) # None
       /\ TorrentInfoFieldsV1(d) # None
       /\ TorrentInfoFieldsV2(d) # None
       /\ Required(d, "md5sum")
    THEN Some([variant |-> "Hybrid", base |-> TorrentInfoBase(d),
               v1 |-> TorrentInfoFieldsV1(d), v2 |-> TorrentInfoFieldsV2(d)])
    ELSE None

\* v2hybrid::TorrentInfo: base, v1 fields and v2 fields, all flattened.
TorrentInfoHybrid(d) ==
    IF /\ TorrentInfoBase(d) # None
       /\ TorrentInfoFieldsV1(d) # None
       /\ TorrentInfoFieldsV2(d) # None
    THEN Some([variant |-> "Hybrid", base |-> TorrentInfoBase(d),
               v1 |-> TorrentInfoFieldsV1(d), v2 |-> TorrentInfoFieldsV2(d)])
    ELSE None

\* The resolver: Hybrid first, then the file-tree variant, then the flat
\* variant; the first that can be built is returned.
Resolve(d) ==
    IF TorrentInfoHybrid(d) # None THEN TorrentInfoHybrid(d)[1]
    ELSE IF TorrentInfoV2(d) # None THEN TorrentInfoV2(d)[1]
    ELSE IF TorrentInfoV1(d) # None THEN TorrentInfoV1(d)[1]
    ELSE NoVariantMatched

\* resolved.info: the result of the resolver; resolved.content: the result
\* of deserializing TorrentInfoContent from the dictionary.

\* The resolver applied to the info dictionary.
ResolveInfo ==
    /\ resolved.info = NotCalled
    /\ resolved' = [resolved EXCEPT !.info = Called(Resolve(info))]
    /\ UNCHANGED info
    /\ UNCHANGED <<treeVars, flatVars, hashVars, magnetVars>>

\* TorrentInfoContent deserialized from the info dictionary.
DeserializeContent ==
    /\ resolved.content = NotCalled
    /\ resolved' = [resolved EXCEPT !.content = Called(TorrentInfoContent(info))]
    /\ UNCHANGED info
    /\ UNCHANGED <<treeVars, flatVars, hashVars, magnetVars>>

InitResolve ==
    /\ info \in InfoDicts
    /\ resolved = [info |-> NotCalled, content |-> NotCalled]
    /\ source = Idle /\ file_tree = Idle
    /\ stack = Idle /\ yielded = Idle /\ ended = Idle
    /\ v1doc = Idle /\ v1iter = Idle /\ v1out = Idle
    /\ info_hash = Idle /\ hash_result = Idle
    /\ uri = Idle /\ link = Idle

NextResolve == ResolveInfo \/ DeserializeContent

SpecResolve == InitResolve /\ [][NextResolve]_vars

Present(k) == info[k] # "absent"
WellShaped == \A k \in InfoKeys : info[k] # "bad"

C2_NoContentNoTreeFails ==
    (/\ resolved.info # NotCalled
     /\ ~Present("length") /\ ~Present("files")
     /\ (~Present("meta_version") \/ ~Present("file_tree")))
    => resolved.info[1] = NoVariantMatched

\* A resolved dictionary with base keys and pieces but no content key and no
\* file tree.
C2_Witness ==
    /\ resolved.info # NotCalled
    /\ WellShaped
    /\ Present("name") /\ Present("piece_length") /\ Present("pieces")
    /\ ~Present("length") /\ ~Present("files")
    /\ Present("meta_version") /\ ~Present("file_tree")

\* C3 as stated: when both `length` and `files` are present the content is
\* resolved neither to File (single) nor to Directory (multi): it fails.
C3_BothKeysFail ==
    (/\ resolved.content # NotCalled
     /\ Present("length") /\ Present("files"))
    => resolved.content[1] = None

\* C3 amended: when both `length` and `files` are present with the required
\* shape (and md5sum, if present, too) the content resolves to File (single)
\* and `files` is ignored; it neither fails nor resolves to Directory.
C3_BothKeysGiveFile ==
    (/\ resolved.content # NotCalled
     /\ info.length = "ok" /\ info.files = "ok" /\ info.md5sum # "bad")
    => resolved.content[1] = Some("File")

\* The content of a dictionary with both keys was deserialized.
C3_Witness ==
    /\ resolved.content # NotCalled
    /\ info.length = "ok" /\ info.files = "ok" /\ info.md5sum = "absent"

----------------------------------------------------------------------------
\* MagnetLink::hash_bytes (magnet/mod.rs). A text is a sequence of
\* characters; str::len counts the bytes of its UTF-8 encoding.

HexLen == 40
Base32Len == 32
DigestLen == 20

UpperLetters == <<"A", "B", "C", "D", "E", "F", "G", "H", "I", "J", "K", "L", "M",
                  "N", "O", "P", "Q", "R", "S", "T", "U", "V", "W", "X", "Y", "Z">>
LowerLetters == <<"a", "b", "c", "d", "e", "f", "g", "h", "i", "j", "k", "l", "m",
                  "n", "o", "p", "q", "r", "s", "t", "u", "v", "w", "x", "y", "z">>
Digits == <<"0", "1", "2", "3", "4", "5", "6", "7", "8", "9">>

\* Characters outside ASCII (two bytes each in UTF-8).
TwoByteChars == {"é"}

\* The bytes of a text: an ASCII character is one byte, written as the
\* character; a character of TwoByteChars is two bytes, neither of them
\* ASCII.
RECURSIVE Utf8(_)
Utf8(text) ==
    IF text = <<>> THEN <<>>
    ELSE (IF Head(text) \in TwoByteChars THEN <<"\\xC3", "\\xA9">>
          ELSE <<Head(text)>>) \o Utf8(Tail(text))

\* str::len.
StrLen(text) == Len(Utf8(text))

\* str::to_ascii_lowercase: ASCII capitals are replaced, all else is kept.
ToAsciiLowercase(text) ==
    [i \in 1..Len(text) |->
        IF Occurs(UpperLetters, text[i])
        THEN LowerLetters[IndexOf(UpperLetters, text[i])]
        ELSE text[i]]

\* hex: the value of a digit byte, in either case.
IsHexDigit(c) ==
    \/ Occurs(Digits, c)
    \/ Occurs(SubSeq(LowerLetters, 1, 6), c)
    \/ Occurs(SubSeq(UpperLetters, 1, 6), c)

HexVal(c) ==
    IF Occurs(Digits, c) THEN IndexOf(Digits, c) - 1
    ELSE IF Occurs(LowerLetters, c) THEN IndexOf(LowerLetters, c) + 9
    ELSE IndexOf(UpperLetters, c) + 9

\* hex::decode on the bytes of a text: an error for an odd number of bytes
\* or a byte that is no hex digit, else one byte for every two digits.
HexDecode(bytes) ==
    IF Len(bytes) % 2 # 0 \/ \E i \in 1..Len(bytes) : ~IsHexDigit(bytes[i])
    THEN None
    ELSE Some([i \in 1..(Len(bytes) \div 2) |->
                  16 * HexVal(bytes[2 * i - 1]) + HexVal(bytes[2 * i])])

\* base32, Alphabet::Rfc4648: A-Z are 0..25 and 2-7 are 26..31. Whether a
\* lowercase letter is taken for its capital is decided inside the base32
\* crate; lower_ok says which.
IsBase32Char(c, lower_ok) ==
    \/ Occurs(UpperLetters, c)
    \/ Occurs(SubSeq(Digits, 3, 8), c)
    \/ lower_ok /\ Occurs(LowerLetters, c)

Base32Val(c) ==
    IF Occurs(UpperLetters, c) THEN IndexOf(UpperLetters, c) - 1
    ELSE IF Occurs(LowerLetters, c) THEN IndexOf(LowerLetters, c) - 1
    ELSE IndexOf(Digits, c) + 23

\* base32::decode without padding: each chunk of up to 8 characters gives 5
\* bytes (u8 arithmetic), and the result is cut to len * 5 / 8 bytes.
Base32Decode(bytes, lower_ok) ==
    IF \E i \in 1..Len(bytes) : ~IsBase32Char(bytes[i], lower_ok)
    THEN None
    ELSE LET buf(i) == IF i <= Len(bytes) THEN Base32Val(bytes[i]) ELSE 0
             byte(c, j) ==
                 LET b(k) == buf(8 * c + k + 1)
                 IN CASE j = 0 -> ((b(0) * 8) % 256) + b(1) \div 4
                      [] j = 1 -> ((b(1) * 64) % 256) + b(2) * 2 + b(3) \div 16
                      [] j = 2 -> ((b(3) * 16) % 256) + b(4) \div 2
                      [] j = 3 -> ((b(4) * 128) % 256) + b(5) * 4 + b(6) \div 8
                      [] j = 4 -> ((b(6) * 32) % 256) + b(7)
         IN Some([i \in 1..((Len(bytes) * 5) \div 8) |->
                     byte((i - 1) \div 5, (i - 1) % 5)])

Ok(bytes) == [tag |-> "Ok", bytes |-> bytes]
Err(e) == [tag |-> e, bytes |-> <<>>]

\* Vec<u8>::try_into::<[u8; 20]>().map_err(|_| InvalidLength).
TryIntoDigest(decoded) ==
    IF Len(decoded) = DigestLen THEN Ok(decoded) ELSE Err("InvalidLength")

\* hash_bytes that takes every text of at least 40 bytes for hex.
hash_bytes_at_least(text, lower_ok) ==
    LET cleaned == Utf8(ToAsciiLowercase(text))
    IN IF Len(cleaned) >= HexLen
       THEN (IF HexDecode(cleaned) = None THEN Err("InvalidHex")
             ELSE TryIntoDigest(HexDecode(cleaned)[1]))
       ELSE IF Len(cleaned) = Base32Len
       THEN (IF Base32Decode(cleaned, lower_ok) = None THEN Err("InvalidBase32")
             ELSE TryIntoDigest(Base32Decode(cleaned, lower_ok)[1]))
       ELSE Err("UnsupportedLength")

\* MagnetLink::hash_bytes.
hash_bytes(text, lower_ok) ==
    LET cleaned == Utf8(ToAsciiLowercase(text))
    IN IF Len(cleaned) = HexLen
       THEN (IF HexDecode(cleaned) = None THEN Err("InvalidHex")
             ELSE TryIntoDigest(HexDecode(cleaned)[1]))
       ELSE IF Len(cleaned) = Base32Len
       THEN (IF Base32Decode(cleaned, lower_ok) = None THEN Err("InvalidBase32")
             ELSE TryIntoDigest(Base32Decode(cleaned, lower_ok)[1]))
       ELSE Err("UnsupportedLength")

\* Characters of the texts: hex digits that are base-32 characters too
\* ("a", "F", "2"), a base-32 character that is no hex digit ("g"), a hex
\* digit that is no base-32 character ("1"), and a character outside ASCII.
HashChars == {"a", "F", "g", "2", "1", "é"}

\* Numbers of characters of the texts.
TextLens == {0, 7, 16, 20, 31, 32, 33, 39, 40, 41}

Repeat(c, n) == [i \in 1..n |-> c]

\* A run of one character followed by a run of another.
HashTexts ==
    {Repeat(c1, k) \o Repeat(c2, n - k) :
        <<c1, c2>> \in HashChars \X HashChars,
        <<n, k>> \in {p \in TextLens \X (0..41) : p[2] <= p[1]}}

\* One call of hash_bytes on a link holding info_hash.
HashBytes ==
    /\ hash_result = NotCalled
    /\ \E lower_ok \in BOOLEAN :
          hash_result' = Called(hash_bytes(info_hash, lower_ok))
    /\ UNCHANGED info_hash
    /\ UNCHANGED <<resolveVars, treeVars, flatVars, magnetVars>>

InitHash ==
    /\ info_hash \in HashTexts
    /\ hash_result = NotCalled
    /\ info = Idle /\ resolved = Idle
    /\ source = Idle /\ file_tree = Idle
    /\ stack = Idle /\ yielded = Idle /\ ended = Idle
    /\ v1doc = Idle /\ v1iter = Idle /\ v1out = Idle
    /\ uri = Idle /\ link = Idle

NextHash == HashBytes

SpecHash == InitHash /\ [][NextHash]_vars

----------------------------------------------------------------------------
\* MagnetLink::from_str (magnet/mod.rs). The text of a URI is its scheme and
\* the key=value pairs of its query, as written; a key or a value is a
\* sequence of pieces of text.

\* Bound on the number of pairs of a query.
MaxParams == 2

\* Schemes as written; "" is a text without a scheme.
Schemes == {"magnet", "MAGNET", "http", ""}

BtihPrefix == "urn:btih:"

\* Keys as written: the four recognized ones, another one, and "xt" with a
\* percent-encoded letter.
RawKeys == {<<"xt">>, <<"dn">>, <<"tr">>, <<"ws">>, <<"kt">>, <<"%78t">>}

\* Values as written: with and without the prefix, with the prefix twice,
\* with it percent-encoded, with it not at the start, and the prefix alone.
RawValues == {<<"h">>,
              <<"urn:btih:", "h">>,
              <<"urn:btih:", "urn:btih:", "h">>,
              <<"urn%3Abtih%3A", "h">>,
              <<"h", "urn:btih:">>,
              <<"urn:btih:">>}

Uris == [scheme : Schemes,
         query : SeqsUpTo([key : RawKeys, value : RawValues], MaxParams)]

\* Percent-decoding of one piece of text, as query_pairs does it.
PercentDecode(piece) ==
    CASE piece = "urn%3Abtih%3A" -> "urn:btih:"
      [] piece = "%78t" -> "xt"
      [] OTHER -> piece

DecodeText(text) == [i \in 1..Len(text) |-> PercentDecode(text[i])]

\* Url::query_pairs: the pairs in source order, percent-decoded.
QueryPairs(query) ==
    [i \in 1..Len(query) |->
        [key |-> DecodeText(query[i].key), value |-> DecodeText(query[i].value)]]

\* Url::parse, as far as from_str looks at it: a text without a scheme is
\* no URL; the scheme of a URL is kept in lowercase.
UrlParse(u) ==
    IF u.scheme = "" THEN None
    ELSE Some([scheme |-> IF u.scheme = "MAGNET" THEN "magnet" ELSE u.scheme,
               query_pairs |-> QueryPairs(u.query)])

\* str::starts_with and str::trim_start_matches for a pattern of one piece.
StartsWith(text, pat) == Len(text) > 0 /\ text[1] = pat

RECURSIVE TrimStartMatches(_, _)
TrimStartMatches(text, pat) ==
    IF StartsWith(text, pat) THEN TrimStartMatches(Tail(text), pat) ELSE text

\* The locals of from_str before the loop.
NoFields == [info_hash |-> None, display_name |-> None, trackers |-> <<>>,
             web_seeds |-> <<>>, params |-> <<>>]

\* The match of from_str without the guard on "xt".
DispatchAnyXt(acc, key, value) ==
    CASE key = <<"xt">> ->
             [acc EXCEPT !.info_hash = Some(TrimStartMatches(value, BtihPrefix))]
      [] key = <<"dn">> -> [acc EXCEPT !.display_name = Some(value)]
      [] key = <<"tr">> -> [acc EXCEPT !.trackers = Append(@, value)]
      [] key = <<"ws">> -> [acc EXCEPT !.web_seeds = Append(@, value)]
      [] OTHER -> [acc EXCEPT !.params = Append(@, <<key, value>>)]

\* The match of from_str that keeps a display name in params as well.
DispatchDnToParams(acc, key, value) ==
    CASE key = <<"xt">> /\ StartsWith(value, BtihPrefix) ->
             [acc EXCEPT !.info_hash = Some(TrimStartMatches(value, BtihPrefix))]
      [] key = <<"dn">> ->
             [acc EXCEPT !.display_name = Some(value),
                         !.params = Append(@, <<key, value>>)]
      [] key = <<"tr">> -> [acc EXCEPT !.trackers = Append(@, value)]
      [] key = <<"ws">> -> [acc EXCEPT !.web_seeds = Append(@, value)]
      [] OTHER -> [acc EXCEPT !.params = Append(@, <<key, value>>)]

\* The match of from_str that puts a tracker before the ones it has.
DispatchTrackerFirst(acc, key, value) ==
    CASE key = <<"xt">> /\ StartsWith(value, BtihPrefix) ->
             [acc EXCEPT !.info_hash = Some(TrimStartMatches(value, BtihPrefix))]
      [] key = <<"dn">> -> [acc EXCEPT !.display_name = Some(value)]
      [] key = <<"tr">> -> [acc EXCEPT !.trackers = <<value>> \o @]
      [] key = <<"ws">> -> [acc EXCEPT !.web_seeds = Append(@, value)]
      [] OTHER -> [acc EXCEPT !.params = Append(@, <<key, value>>)]

\* The match of from_str on one pair: the first arm that applies.
Dispatch(acc, key, value) ==
    CASE key = <<"xt">> /\ StartsWith(value, BtihPrefix) ->
             [acc EXCEPT !.info_hash = Some(TrimStartMatches(value, BtihPrefix))]
      [] key = <<"dn">> -> [acc EXCEPT !.display_name = Some(value)]
      [] key = <<"tr">> -> [acc EXCEPT !.trackers = Append(@, value)]
      [] key = <<"ws">> -> [acc EXCEPT !.web_seeds = Append(@, value)]
      [] OTHER -> [acc EXCEPT !.params = Append(@, <<key, value>>)]

\* The loop of from_str over the pairs.
RECURSIVE QueryLoop(_, _)
QueryLoop(acc, pairs) ==
    IF pairs = <<>> THEN acc
    ELSE QueryLoop(Dispatch(acc, Head(pairs).key, Head(pairs).value), Tail(pairs))

ParseError(e) == [tag |-> e, link |-> NoFields]
ParseOk(fields) == [tag |-> "Ok", link |-> fields]

\* from_str that looks for the info hash before it looks at the scheme.
from_str_hash_first(u) ==
    IF UrlParse(u) = None THEN ParseError("InvalidUrl")
    ELSE LET url == UrlParse(u)[1]
             fields == QueryLoop(NoFields, url.query_pairs)
         IN IF fields.info_hash = None THEN ParseError("MissingInfoHash")
            ELSE IF url.scheme # "magnet" THEN ParseError("InvalidScheme")
            ELSE ParseOk([fields EXCEPT !.info_hash = fields.info_hash[1]])

\* MagnetLink::from_str.
from_str(u) ==
    IF UrlParse(u) = None THEN ParseError("InvalidUrl")
    ELSE LET url == UrlParse(u)[1]
         IN IF url.scheme # "magnet" THEN ParseError("InvalidScheme")
            ELSE LET fields == QueryLoop(NoFields, url.query_pairs)
                 IN IF fields.info_hash = None THEN ParseError("MissingInfoHash")
                    ELSE ParseOk([fields EXCEPT !.info_hash = fields.info_hash[1]])

\* One call of from_str.
FromStr ==
    /\ link = NotCalled
    /\ link' = Called(from_str(uri))
    /\ UNCHANGED uri
    /\ UNCHANGED <<resolveVars, treeVars, flatVars, hashVars>>

InitMagnet ==
    /\ uri \in Uris
    /\ link = NotCalled
    /\ info = Idle /\ resolved = Idle
    /\ source = Idle /\ file_tree = Idle
    /\ stack = Idle /\ yielded = Idle /\ ended = Idle
    /\ v1doc = Idle /\ v1iter = Idle /\ v1out = Idle
    /\ info_hash = Idle /\ hash_result = Idle

NextMagnet == FromStr

SpecMagnet == InitMagnet /\ [][NextMagnet]_vars

\* The parameters of the URI as the URL library reports them.
UriParams == QueryPairs(uri.query)

IsBtihXt(p) == p.key = <<"xt">> /\ Len(p.value) > 0 /\ p.value[1] = BtihPrefix

MagnetScheme == uri.scheme \in {"magnet", "MAGNET"}

\* C9: for a URI with the magnet scheme, from_str succeeds exactly when some
\* `xt` parameter has a value starting with `urn:btih:`, and fails with
\* MissingInfoHash otherwise; no other parameter matters.
C9_OkIffBtihXt ==
    (link # NotCalled /\ MagnetScheme) =>
        IF \E i \in 1..Len(UriParams) : IsBtihXt(UriParams[i])
        THEN link[1].tag = "Ok"
        ELSE link[1].tag = "MissingInfoHash"

\* A magnet URI that has a display name and a tracker but no `xt` with the
\* prefix was refused.
C9_Witness ==
    /\ link # NotCalled
    /\ MagnetScheme
    /\ Len(UriParams) = 2
    /\ UriParams[1].key = <<"dn">>
    /\ UriParams[2].key = <<"xt">> /\ ~IsBtihXt(UriParams[2])
    /\ link[1].tag = "MissingInfoHash"

Recognized == {<<"xt">>, <<"dn">>, <<"tr">>, <<"ws">>}

\* C10 as stated: params of a parsed link holds no pair whose key is `xt`,
\* `dn`, `tr` or `ws`; an `xt` without the prefix is recorded nowhere.
C10_NoRecognizedKeyInParams ==
    (link # NotCalled /\ link[1].tag = "Ok") =>
        \A i \in 1..Len(link[1].link.params) :
            link[1].link.params[i][1] \notin Recognized

\* A parameter whose key is not recognized, or an `xt` without the prefix.
Unrecognized(p) ==
    \/ p.key \notin Recognized
    \/ p.key = <<"xt">> /\ ~IsBtihXt(p)

\* The unrecognized parameters of a sequence, in order, as (key, value).
RECURSIVE UnrecognizedPairs(_)
UnrecognizedPairs(ps) ==
    IF ps = <<>> THEN <<>>
    ELSE (IF Unrecognized(Head(ps))
          THEN <<<<Head(ps).key, Head(ps).value>>>> ELSE <<>>)
         \o UnrecognizedPairs(Tail(ps))

\* C10 amended: params of a parsed link holds no pair whose key is `dn`,
\* `tr` or `ws`; it holds, in source order, the pairs of the other keys and
\* every `xt` pair whose value lacks the `urn:btih:` prefix.
C10_ParamsKeepUnprefixedXt ==
    (link # NotCalled /\ link[1].tag = "Ok") =>
        /\ \A i \in 1..Len(link[1].link.params) :
             link[1].link.params[i][1] \notin {<<"dn">>, <<"tr">>, <<"ws">>}
        /\ link[1].link.params = UnrecognizedPairs(UriParams)

\* A link was parsed from a URI with an `xt` that has the prefix and an `xt`
\* that lacks it.
C10_Witness ==
    /\ link # NotCalled
    /\ link[1].tag = "Ok"
    /\ \E i, j \in 1..Len(UriParams) :
          /\ IsBtihXt(UriParams[i])
          /\ UriParams[j].key = <<"xt">> /\ ~IsBtihXt(UriParams[j])

\* C13: for every URI that parses as a URL and whose scheme is not `magnet`,
\* from_str fails with InvalidScheme, with or without an `xt` parameter that
\* has the prefix: never MissingInfoHash, never a link.
C13_OtherSchemeIsInvalidScheme ==
    (link # NotCalled /\ uri.scheme # "" /\ ~MagnetScheme) =>
        link[1].tag = "InvalidScheme"

\* A URI with another scheme and an `xt` that has the prefix was refused.
C13_Witness ==
    /\ link # NotCalled
    /\ uri.scheme = "http"
    /\ Len(UriParams) > 0
    /\ IsBtihXt(UriParams[1])
    /\ link[1].tag = "InvalidScheme"

\* The positions of the `xt` parameters whose value has the prefix.
BtihPositions == {i \in 1..Len(UriParams) : IsBtihXt(UriParams[i])}

\* C16: the info hash of a parsed link is the value of the last `xt`
\* parameter that has the prefix `urn:btih:`, without that one leading
\* prefix and otherwise unchanged, also when the rest begins with
\* `urn:btih:` itself.
C16_HashIsRestOfLastXt ==
    (link # NotCalled /\ link[1].tag = "Ok") =>
        /\ BtihPositions # {}
        /\ LET last == CHOOSE i \in BtihPositions :
                           \A j \in BtihPositions : j <= i
           IN link[1].link.info_hash = Tail(UriParams[last].value)

----------------------------------------------------------------------------
\* A link parsed by from_str and its info hash then decoded by hash_bytes
\* (magnet/mod.rs).

\* Bound on the number of pairs of a query of these URIs.
MaxLinkParams == 3

\* Keys as written: the four recognized ones and another one.
LinkKeys == {<<"xt">>, <<"dn">>, <<"tr">>, <<"ws">>, <<"kt">>}

\* Values as written: a short text, the same with the prefix, and the prefix
\* followed by 40 hex digits.
LinkValues == {<<"h">>,
               <<"urn:btih:", "h">>,
               <<"urn:btih:">> \o Repeat("a", HexLen)}

LinkUris == [scheme : {"magnet"},
             query : SeqsUpTo([key : LinkKeys, value : LinkValues], MaxLinkParams)]

\* The characters of a piece of text, and of a text.
PieceChars(piece) ==
    IF piece = BtihPrefix THEN <<"u", "r", "n", ":", "b", "t", "i", "h", ":">>
    ELSE <<piece>>

RECURSIVE TextChars(_)
TextChars(text) ==
    IF text = <<>> THEN <<>> ELSE PieceChars(Head(text)) \o TextChars(Tail(text))

\* One call of hash_bytes on the link from_str returned.
LinkHashBytes ==
    /\ link # NotCalled
    /\ link[1].tag = "Ok"
    /\ hash_result = NotCalled
    /\ \E lower_ok \in BOOLEAN :
          hash_result' =
              Called(hash_bytes(TextChars(link[1].link.info_hash), lower_ok))
    /\ UNCHANGED <<info_hash, uri, link>>
    /\ UNCHANGED <<resolveVars, treeVars, flatVars>>

InitLink ==
    /\ uri \in LinkUris
    /\ link = NotCalled
    /\ info_hash = Idle
    /\ hash_result = NotCalled
    /\ info = Idle /\ resolved = Idle
    /\ source = Idle /\ file_tree = Idle
    /\ stack = Idle /\ yielded = Idle /\ ended = Idle
    /\ v1doc = Idle /\ v1iter = Idle /\ v1out = Idle

NextLink == FromStr \/ LinkHashBytes

SpecLink == InitLink /\ [][NextLink]_vars

\* C11: the info hash of every link from_str returns is 40 hex digits or 32
\* base-32 characters, so that hash_bytes on a parsed link never fails with
\* UnsupportedLength.
C11_ParsedHashHasSupportedLength ==
    /\ (link # NotCalled /\ link[1].tag = "Ok") =>
          LET h == TextChars(link[1].link.info_hash)
          IN \/ Len(h) = HexLen /\ \A i \in 1..Len(h) : IsHexDigit(h[i])
             \/ Len(h) = Base32Len /\ \A i \in 1..Len(h) : IsBase32Char(h[i], TRUE)
    /\ hash_result # NotCalled => hash_result[1].tag # "UnsupportedLength"

\* The values of the parameters of one key, in order.
RECURSIVE ValuesOf(_, _)
ValuesOf(ps, key) ==
    IF ps = <<>> THEN <<>>
    ELSE (IF Head(ps).key = key THEN <<Head(ps).value>> ELSE <<>>)
         \o ValuesOf(Tail(ps), key)

\* The (key, value) pairs of the parameters whose key is not recognized.
RECURSIVE OtherKeyPairs(_)
OtherKeyPairs(ps) ==
    IF ps = <<>> THEN <<>>
    ELSE (IF Head(ps).key \notin Recognized
          THEN <<<<Head(ps).key, Head(ps).value>>>> ELSE <<>>)
         \o OtherKeyPairs(Tail(ps))

\* One `xt` with the prefix, any number of `tr`, and nothing else.
OnlyXtAndTrackers ==
    /\ Cardinality(BtihPositions) = 1
    /\ \A i \in 1..Len(UriParams) :
          IsBtihXt(UriParams[i]) \/ UriParams[i].key = <<"tr">>

\* C12 as stated: trackers of a parsed link is the values of the `tr`
\* parameters and web_seeds the values of the `ws` parameters, in source
\* order with duplicates; params is the pairs of the unrecognized keys (not
\* `xt`, `dn`, `tr`, `ws`), in source order with duplicates; one `xt` with the
\* prefix and k `tr` give k trackers and nothing else.
C12_ListsAsStated ==
    (link # NotCalled /\ link[1].tag = "Ok") =>
        /\ link[1].link.trackers = ValuesOf(UriParams, <<"tr">>)
        /\ link[1].link.web_seeds = ValuesOf(UriParams, <<"ws">>)
        /\ link[1].link.params = OtherKeyPairs(UriParams)
        /\ OnlyXtAndTrackers =>
              /\ Len(link[1].link.trackers) = Len(UriParams) - 1
              /\ link[1].link.web_seeds = <<>>
              /\ link[1].link.params = <<>>
              /\ link[1].link.display_name = None

\* C12 amended: as stated, except that params also holds, in their place in
\* source order, the pairs of the `xt` parameters whose value lacks the
\* prefix `urn:btih:`.
C12_ListsInSourceOrder ==
    (link # NotCalled /\ link[1].tag = "Ok") =>
        /\ link[1].link.trackers = ValuesOf(UriParams, <<"tr">>)
        /\ link[1].link.web_seeds = ValuesOf(UriParams, <<"ws">>)
        /\ link[1].link.params = UnrecognizedPairs(UriParams)
        /\ OnlyXtAndTrackers =>
              /\ Len(link[1].link.trackers) = Len(UriParams) - 1
              /\ link[1].link.web_seeds = <<>>
              /\ link[1].link.params = <<>>
              /\ link[1].link.display_name = None

\* A link was parsed from a URI with an `xt` that has the prefix and two
\* `tr` with the same value.
C12_Witness ==
    /\ link # NotCalled
    /\ link[1].tag = "Ok"
    /\ OnlyXtAndTrackers
    /\ Len(UriParams) = 3
    /\ Len(link[1].link.trackers) = 2
    /\ link[1].link.trackers[1] = link[1].link.trackers[2]

====
